---- MODULE Spec2Model ----
(***************************************************************************)
(* The ragged-array container of enspara/util/array.py: RaggedArray, its   *)
(* index translator and its mutators, as a state machine over one          *)
(* container object `self`.                                                *)
(*                                                                         *)
(* Representation of Python/numpy values:                                  *)
(*   - an optional value (None or x) is <<>> or <<x>>;                     *)
(*   - an item of a nested sequence is Row(s) (an iterable holding the     *)
(*     scalars s) or Scal(x) (a scalar), so that _is_iterable can tell     *)
(*     them apart; View(s) is a row that is a numpy view of _data;         *)
(*   - an index array is [scalar |-> BOOLEAN, v |-> <<...>>]: a 0-d array  *)
(*     (scalar = TRUE, one value) or a 1-d array;                          *)
(*   - a function that can raise returns a record with a field exc, the    *)
(*     name of the exception raised, "" when it returned normally.         *)
(* Elements are scalars: rows of fixed-width vectors are not modelled.     *)
(* numpy is the numpy the module was written for: a nested sequence of     *)
(* rows of different lengths becomes a 1-d array of row objects, rows of   *)
(* one length a 2-d array.                                                 *)
(***************************************************************************)
EXTENDS Integers, Sequences, FiniteSets, TLC

\* ---------------------------------------------------------------- bounds
MaxRows == 2
MaxRowLen == 2
MaxElem == 2

\* the row count above which __init__ skips _ensure_ragged_data
CheckLimit == 20000

\* ---------------------------------------------------------------- values
None == <<>>
Some(x) == <<x>>

Row(s) == [iter |-> TRUE, v |-> s, view |-> FALSE]
Scal(x) == [iter |-> FALSE, v |-> <<x>>, view |-> FALSE]

\* a row that shares its memory with the flat buffer it was sliced from
View(s) == [iter |-> TRUE, v |-> s, view |-> TRUE]

_is_iterable(item) == item.iter

Min(a, b) == IF a < b THEN a ELSE b
Max(a, b) == IF a < b THEN b ELSE a

RECURSIVE Sum(_)
Sum(s) == IF s = <<>> THEN 0 ELSE Head(s) + Sum(Tail(s))

RECURSIVE Flatten(_)
Flatten(ss) == IF ss = <<>> THEN <<>> ELSE Head(ss) \o Flatten(Tail(ss))

\* np.cumsum
cumsum(s) == [k \in 1..Len(s) |-> Sum(SubSeq(s, 1, k))]

\* seq[a:b] of Python for 0 <= a, 0 <= b (b clipped to the length)
PySub(s, a, b) == SubSeq(s, a + 1, Min(b, Len(s)))

\* seq[i] of Python and numpy for an integer i: negative indices wrap once,
\* anything else out of range is an IndexError
np_index(s, i) ==
    LET j == IF i < 0 THEN i + Len(s) ELSE i
    IN  IF j < 0 \/ j >= Len(s) THEN [exc |-> "IndexError", val |-> 0]
        ELSE [exc |-> "", val |-> s[j + 1]]

\* range(start, stop, step) and np.arange(start, stop, step), step # 0
RECURSIVE range(_, _, _)
range(start, stop, step) ==
    IF (step > 0 /\ start >= stop) \/ (step < 0 /\ start <= stop) THEN <<>>
    ELSE <<start>> \o range(start + step, stop, step)

\* np.concatenate(values) for a sequence of items: an empty sequence and a
\* scalar item are both ValueErrors
np_concatenate(values) ==
    IF Len(values) = 0 \/ \E k \in 1..Len(values) : ~values[k].iter
    THEN [exc |-> "ValueError", val |-> <<>>]
    ELSE [exc |-> "", val |-> Flatten([k \in 1..Len(values) |-> values[k].v])]

\* np.array(array) for a sequence of scalar items: the 1-d array of them
np_array(array) == [k \in 1..Len(array) |-> array[k].v[1]]

\* the items of a flat sequence of scalars
Scalars(flat) == [k \in 1..Len(flat) |-> Scal(flat[k])]

\* the items of a sequence of rows
Rows(rr) == [k \in 1..Len(rr) |-> Row(rr[k])]

\* ------------------------------------------------------- module functions
partition_list_bad(list_to_partition, partition_lengths) ==
    IF Sum(partition_lengths) # Len(list_to_partition)
    THEN [exc |-> "DataInvalid", val |-> <<>>]
    ELSE [exc |-> "",
          val |-> [num \in 1..Len(partition_lengths) |->
                    LET start == Sum(SubSeq(partition_lengths, 1, num))
                    IN  View(PySub(list_to_partition, start,
                                   start + partition_lengths[num]))]]

partition_list(list_to_partition, partition_lengths) ==
    IF Sum(partition_lengths) # Len(list_to_partition)
    THEN [exc |-> "DataInvalid", val |-> <<>>]
    ELSE [exc |-> "",
          val |-> [num \in 1..Len(partition_lengths) |->
                    LET start == Sum(SubSeq(partition_lengths, 1, num - 1))
                    IN  View(PySub(list_to_partition, start,
                                   start + partition_lengths[num]))]]

\* an array of rows is 2-d when it has rows and they all have one length,
\* and a 1-d array of row objects otherwise
Is2D(rows) ==
    /\ Len(rows) > 0
    /\ \A k \in 1..Len(rows) : rows[k].iter /\ Len(rows[k].v) = Len(rows[1].v)

\* np.array(rows, dtype='O'): a 2-d array copies the rows, a 1-d array of
\* objects holds the very rows it was given
np_object_array(rows) ==
    IF Is2D(rows) THEN [k \in 1..Len(rows) |-> Row(rows[k].v)] ELSE rows

\* the argument is always a sequence here, so the first test never fires
_ensure_ragged_data(array) ==
    IF Len(array) = 1 THEN ""
    ELSE IF \E num \in 1..(Len(array) - 1) :
                _is_iterable(array[num]) # _is_iterable(array[num + 1])
         THEN "DataInvalid"
         ELSE ""

\* ---------------------------------------------------------- RaggedArray
\* A container object: the three slots of the class. data_set tells whether
\* the slot _data has ever been assigned; reading an unassigned slot is an
\* AttributeError.
Blank == [_data |-> <<>>, data_set |-> FALSE, lengths |-> <<>>,
          _array |-> <<>>]

size(s) == Len(s._data)

starts(s) ==
    <<0>> \o (IF s.lengths = <<>> THEN <<>>
              ELSE SubSeq(cumsum(s.lengths), 1, Len(s.lengths) - 1))

\* RaggedArray.__init__(self, array, lengths, error_checking) run on the
\* object s; optlengths is None or Some(lengths). The result holds the
\* object as the call leaves it, also when it raises.
__init__(s, array, optlengths, error_checking) ==
    LET chk == IF error_checking /\ ~(Len(array) > CheckLimit)
               THEN _ensure_ragged_data(array) ELSE ""
        \* lines 387-393
        cat == IF Len(array) > 0 /\ optlengths = None /\ _is_iterable(array[1])
               THEN np_concatenate(array)
               ELSE [exc |-> "", val |-> np_array(array)]
        s1 == IF Len(array) > 0
              THEN [s EXCEPT !._data = cat.val, !.data_set = TRUE]
              ELSE s
    IN  IF chk # "" THEN [exc |-> chk, self |-> s]
        ELSE IF Len(array) > 0 /\ cat.exc # "" THEN [exc |-> cat.exc, self |-> s]
        ELSE IF optlengths = None /\ Len(array) > 0 THEN
            IF _is_iterable(array[1]) THEN
                LET ls == [i \in 1..Len(array) |-> Len(array[i].v)]
                    s2 == [s1 EXCEPT !.lengths = ls]
                    pl == partition_list(s2._data, s2.lengths)
                IN  IF pl.exc # "" THEN [exc |-> pl.exc, self |-> s2]
                    ELSE [exc |-> "",
                          self |-> [s2 EXCEPT !._array = np_object_array(pl.val)]]
            ELSE
                [exc |-> "",
                 self |-> [s1 EXCEPT !.lengths = <<Len(array)>>,
                                     !._array = <<Row(s1._data)>>]]
        ELSE IF optlengths = None THEN
            [exc |-> "", self |-> [s1 EXCEPT !.lengths = <<>>, !._array = <<>>]]
        ELSE IF ~s1.data_set THEN [exc |-> "AttributeError", self |-> s1]
        ELSE
            LET pl == partition_list(s1._data, optlengths[1])
            IN  IF pl.exc # "" THEN [exc |-> pl.exc, self |-> s1]
                ELSE [exc |-> "",
                      self |-> [s1 EXCEPT !._array = np_object_array(pl.val),
                                          !.lengths = optlengths[1]]]

\* RaggedArray(array, lengths, error_checking): a new object
RaggedArray(array, optlengths, error_checking) ==
    __init__(Blank, array, optlengths, error_checking)

\* ------------------------------------------------------ index translator
\* index arrays: np.array(n) and np.array([...])
Arr0(n) == [scalar |-> TRUE, v |-> <<n>>]
Arr1(l) == [scalar |-> FALSE, v |-> l]

\* the starts that _convert_from_1d and _convert_from_2d derive from lengths
starts_from(ls) ==
    <<0>> \o (IF ls = <<>> THEN <<>> ELSE SubSeq(cumsum(ls), 1, Len(ls) - 1))

\* _convert_from_1d(iis_flat, lengths, starts): optls and optst are None or
\* Some(...); iis_flat is the 1-d array inside the 1-tuple
_convert_from_1d_bad(iis_flat, optls, optst) ==
    IF optls = None /\ optst = None
    THEN [exc |-> "ImproperlyConfigured", first |-> <<>>, second |-> <<>>]
    ELSE
      LET sts == IF optst = None THEN starts_from(optls[1]) ELSE optst[1]
          le(ii) == {r \in 1..Len(sts) : sts[r] <= ii}
          first_dimension == [num \in 1..Len(iis_flat) |->
              IF le(iis_flat[num]) = {} THEN 0
              ELSE (CHOOSE r \in le(iis_flat[num]) :
                       \A q \in le(iis_flat[num]) : r <= q) - 1]
      IN IF \E num \in 1..Len(iis_flat) : le(iis_flat[num]) = {}
         THEN [exc |-> "IndexError", first |-> <<>>, second |-> <<>>]
         ELSE [exc |-> "",
               first |-> first_dimension,
               second |-> [num \in 1..Len(iis_flat) |->
                           iis_flat[num] - sts[first_dimension[num] + 1]]]

_convert_from_1d(iis_flat, optls, optst) ==
    IF optls = None /\ optst = None
    THEN [exc |-> "ImproperlyConfigured", first |-> <<>>, second |-> <<>>]
    ELSE
      LET sts == IF optst = None THEN starts_from(optls[1]) ELSE optst[1]
          le(ii) == {r \in 1..Len(sts) : sts[r] <= ii}
          \* np.where(starts <= ii)[0][-1], as a 0-based row
          first_dimension == [num \in 1..Len(iis_flat) |->
              IF le(iis_flat[num]) = {} THEN 0
              ELSE (CHOOSE r \in le(iis_flat[num]) :
                       \A q \in le(iis_flat[num]) : q <= r) - 1]
      IN IF \E num \in 1..Len(iis_flat) : le(iis_flat[num]) = {}
         THEN [exc |-> "IndexError", first |-> <<>>, second |-> <<>>]
         ELSE [exc |-> "",
               first |-> first_dimension,
               second |-> [num \in 1..Len(iis_flat) |->
                           iis_flat[num] - sts[first_dimension[num] + 1]]]

\* the value an index array contributes at position k of a broadcast
Bc(a, k) == IF Len(a.v) = 1 THEN a.v[1] ELSE a.v[k]

\* two index arrays broadcast together when one has a single value or both
\* have the same number of values
Broadcasts(a, b) == Len(a.v) = 1 \/ Len(b.v) = 1 \/ Len(a.v) = Len(b.v)

\* lengths[first_dimension] and starts[first_dimension] fail when a row is
\* out of range
RowsInRange(a, n) == \A k \in 1..Len(a.v) : a.v[k] >= -n /\ a.v[k] < n

\* a negative column gets the total length instead of the length of its row
_handle_negative_indices_total(first_dimension, second_dimension, ls, sts) ==
    LET fneg == {k \in 1..Len(first_dimension.v) : first_dimension.v[k] < 0}
        sneg == {k \in 1..Len(second_dimension.v) : second_dimension.v[k] < 0}
        f1 == IF fneg = {} THEN first_dimension
              ELSE [first_dimension EXCEPT !.v =
                     [k \in 1..Len(first_dimension.v) |->
                        IF k \in fneg THEN first_dimension.v[k] + Len(sts)
                        ELSE first_dimension.v[k]]]
    IN  IF \E k \in 1..Len(f1.v) : f1.v[k] < 0
        THEN [exc |-> "IndexError", first |-> f1, second |-> second_dimension]
        ELSE IF sneg = {}
        THEN [exc |-> "", first |-> f1, second |-> second_dimension]
        ELSE IF ~RowsInRange(f1, Len(ls))
        THEN [exc |-> "IndexError", first |-> f1, second |-> second_dimension]
        ELSE IF ~Broadcasts(f1, second_dimension)
        THEN [exc |-> "ValueError", first |-> f1, second |-> second_dimension]
        ELSE
          LET s1 == [second_dimension EXCEPT !.v =
                      [k \in 1..Len(second_dimension.v) |->
                         IF k \in sneg
                         THEN second_dimension.v[k] + Sum(ls)
                         ELSE second_dimension.v[k]]]
          IN  IF \E k \in 1..Len(s1.v) : s1.v[k] < 0
              THEN [exc |-> "IndexError", first |-> f1, second |-> s1]
              ELSE [exc |-> "", first |-> f1, second |-> s1]

\* _handle_negative_indices(first_dimension, second_dimension, lengths,
\* starts), lengths always supplied. Lines 149-153: both branches add
\* len(starts) to the negative rows; lines 162-170: every negative column
\* gets the length of its row. lengths[first_dimension] fails on a row past
\* the end, and arrays that do not broadcast do not add.
_handle_negative_indices(first_dimension, second_dimension, ls, sts) ==
    LET fneg == {k \in 1..Len(first_dimension.v) : first_dimension.v[k] < 0}
        sneg == {k \in 1..Len(second_dimension.v) : second_dimension.v[k] < 0}
        f1 == IF fneg = {} THEN first_dimension
              ELSE [first_dimension EXCEPT !.v =
                     [k \in 1..Len(first_dimension.v) |->
                        IF k \in fneg THEN first_dimension.v[k] + Len(sts)
                        ELSE first_dimension.v[k]]]
    IN  IF \E k \in 1..Len(f1.v) : f1.v[k] < 0
        THEN [exc |-> "IndexError", first |-> f1, second |-> second_dimension]
        ELSE IF sneg = {}
        THEN [exc |-> "", first |-> f1, second |-> second_dimension]
        ELSE IF ~RowsInRange(f1, Len(ls))
        THEN [exc |-> "IndexError", first |-> f1, second |-> second_dimension]
        ELSE IF ~Broadcasts(f1, second_dimension)
        THEN [exc |-> "ValueError", first |-> f1, second |-> second_dimension]
        ELSE
          LET s1 == [second_dimension EXCEPT !.v =
                      [k \in 1..Len(second_dimension.v) |->
                         IF k \in sneg
                         THEN second_dimension.v[k] + ls[Bc(f1, k) + 1]
                         ELSE second_dimension.v[k]]]
          IN  IF \E k \in 1..Len(s1.v) : s1.v[k] < 0
              THEN [exc |-> "IndexError", first |-> f1, second |-> s1]
              ELSE [exc |-> "", first |-> f1, second |-> s1]

\* _convert_from_2d(iis_ragged, lengths, starts, error_check): iis_ragged is
\* the pair of index arrays; lengths and starts are both supplied
_convert_from_2d(first_in, second_in, ls, sts, error_check) ==
    LET \* line 189: iis = ([0, 1, 2], 4)
        second_b == IF Len(first_in.v) > 1 /\ Len(second_in.v) = 1
                    THEN Arr1([n \in 1..Len(first_in.v) |-> second_in.v[1]])
                    ELSE second_in
        h == _handle_negative_indices(first_in, second_b, ls, sts)
        N == Max(Len(h.first.v), Len(h.second.v))
        M == IF Len(h.first.v) = 0 \/ Len(h.second.v) = 0 THEN 0 ELSE N
    IN  IF h.exc # "" THEN [exc |-> h.exc, iis_flat |-> Arr1(<<>>)]
        ELSE IF ~RowsInRange(h.first, Len(ls))
        THEN [exc |-> "IndexError", iis_flat |-> Arr1(<<>>)]
        ELSE IF ~Broadcasts(h.first, h.second)
        THEN [exc |-> "ValueError", iis_flat |-> Arr1(<<>>)]
        ELSE IF error_check
                /\ \E k \in 1..M : ls[Bc(h.first, k) + 1] <= Bc(h.second, k)
        THEN [exc |-> "IndexError", iis_flat |-> Arr1(<<>>)]
        ELSE
          [exc |-> "",
           iis_flat |-> [scalar |-> h.first.scalar /\ h.second.scalar,
                         v |-> [k \in 1..M |->
                                  sts[Bc(h.first, k) + 1] + Bc(h.second, k)]]]

\* ------------------------------------------------------ index expressions
\* an int, a list of ints, or a slice whose three fields are optional
IInt(n) == [t |-> "int", n |-> n]
IList(l) == [t |-> "list", l |-> l]
ISlice(a, b, c) == [t |-> "slice", start |-> a, stop |-> b, step |-> c]

\* seq[slice] of Python and numpy for a 1-d sequence (slice.indices),
\* step # 0
PySliceIndices(sl, n) ==
    LET step == IF sl.step = None THEN 1 ELSE sl.step[1]
        lower == IF step < 0 THEN -1 ELSE 0
        upper == IF step < 0 THEN n - 1 ELSE n
        clamp(x) == IF x < 0 THEN Max(x + n, lower) ELSE Min(x, upper)
        start == IF sl.start = None
                 THEN (IF step < 0 THEN upper ELSE lower)
                 ELSE clamp(sl.start[1])
        stop == IF sl.stop = None
                THEN (IF step < 0 THEN lower ELSE upper)
                ELSE clamp(sl.stop[1])
    IN  range(start, stop, step)

PySlice(seq, sl) ==
    LET ix == PySliceIndices(sl, Len(seq))
    IN  [k \in 1..Len(ix) |-> seq[ix[k] + 1]]

\* _slice_to_list(slice_func, length): optlength is None or Some(length).
\* start and stop are rebound to integers before the test of line 224, which
\* reads the rebound locals.
_slice_to_list(slice_func, optlength) ==
    LET start_none == slice_func.start = None
        start_neg == ~start_none /\ slice_func.start[1] < 0
        stop_none == slice_func.stop = None
        start == IF start_none THEN Some(0)
                 ELSE IF start_neg
                      THEN (IF optlength = None THEN None
                            ELSE Some(optlength[1] + slice_func.start[1]))
                      ELSE slice_func.start
        stop == IF stop_none THEN optlength
                ELSE IF slice_func.stop[1] < 0
                     THEN (IF optlength = None THEN None
                           ELSE Some(optlength[1] + slice_func.stop[1]))
                     ELSE slice_func.stop
        step == IF slice_func.step = None THEN 1 ELSE slice_func.step[1]
        reverse == slice_func.step # None /\ step < 0
                   /\ stop = None /\ start = None
    IN  IF start_neg /\ optlength = None
        THEN [exc |-> "ImproperlyConfigured", val |-> <<>>]
        ELSE IF stop_none /\ optlength = None
        THEN [exc |-> "ImproperlyConfigured", val |-> <<>>]
        \* length + stop with length None
        ELSE IF stop = None THEN [exc |-> "TypeError", val |-> <<>>]
        ELSE IF reverse
        THEN [exc |-> "", val |-> range(stop[1], -1, step)]
        ELSE [exc |-> "", val |-> range(start[1], stop[1], step)]

\* _get_iis_from_slices(first_dimension_iis, second_dimension, lengths):
\* first and second are the two index arrays of the 2-d indices, new_lengths
\* is iis_2d_lengths
_get_iis_from_slices(first_dimension_iis, second_dimension, ls) ==
    LET start == IF second_dimension.start = None THEN 0
                 ELSE second_dimension.start[1]
        step == IF second_dimension.step = None THEN 1
                ELSE second_dimension.step[1]
        stops0 == IF second_dimension.stop = None THEN ls
                  ELSE IF second_dimension.stop[1] < 0
                       THEN [k \in 1..Len(ls) |-> ls[k] + second_dimension.stop[1]]
                       ELSE [k \in 1..Len(ls) |-> second_dimension.stop[1]]
        \* if indices go past length, make it go upto length
        stops == [k \in 1..Len(ls) |->
                    IF stops0[k] > ls[k] THEN ls[k] ELSE stops0[k]]
        n == Len(first_dimension_iis)
        bad == \E i \in 1..n : np_index(stops, first_dimension_iis[i]).exc # ""
        iis_2d == [i \in 1..n |->
                    range(start, np_index(stops, first_dimension_iis[i]).val,
                          step)]
        iis_2d_lengths == [i \in 1..n |-> Len(iis_2d[i])]
        iis_1d == Flatten([i \in 1..n |->
                    [j \in 1..iis_2d_lengths[i] |-> first_dimension_iis[i]]])
    IN  IF bad
        THEN [exc |-> "IndexError", shape0 |-> FALSE, first |-> <<>>,
              second |-> <<>>, new_lengths |-> <<>>]
        \* np.concatenate of no arrays
        ELSE IF n = 0
        THEN [exc |-> "ValueError", shape0 |-> FALSE, first |-> <<>>,
              second |-> <<>>, new_lengths |-> <<>>]
        ELSE [exc |-> "", shape0 |-> FALSE, first |-> iis_1d,
              second |-> Flatten(iis_2d), new_lengths |-> iis_2d_lengths]

\* _get_iis_from_list(first_dimension, second_dimension): the transposed
\* product of the two lists. An empty product is the array of shape (0,)
\* (shape0), which _convert_from_2d fails to unpack into two index arrays.
_get_iis_from_list(first_dimension, second_dimension) ==
    LET n == Len(first_dimension)
        m == Len(second_dimension)
    IN  [exc |-> "", shape0 |-> n * m = 0,
         first |-> Flatten([i \in 1..n |-> [j \in 1..m |-> first_dimension[i]]]),
         second |-> Flatten([i \in 1..n |-> second_dimension]),
         new_lengths |-> [i \in 1..n |-> m]]

\* ------------------------------------------------- RaggedArray.__getitem__
ITuple(a, b) == [t |-> "tuple", first |-> a, second |-> b]

\* what a call returns: nothing (it raised), a materialized row, a scalar,
\* an array of raw flat values, or a new container
RetExc(e) == [exc |-> e, kind |-> "none", vals |-> <<>>, ra |-> Blank]
RetItem(item) == [exc |-> "", kind |-> IF item.iter THEN "row" ELSE "scalar",
                  vals |-> item.v, ra |-> Blank]
RetVals(isscalar, vals) ==
    [exc |-> "", kind |-> IF isscalar THEN "scalar" ELSE "values",
     vals |-> vals, ra |-> Blank]
RetRA(r) == IF r.exc # "" THEN RetExc(r.exc)
            ELSE [exc |-> "", kind |-> "RaggedArray", vals |-> <<>>,
                  ra |-> r.self]

\* the index array of an int or a list
AsArr(ix) == IF ix.t = "int" THEN Arr0(ix.n) ELSE Arr1(ix.l)

\* self._data[(iis_flat,)]
TakeFlat(data, iis_flat) ==
    IF \E k \in 1..Len(iis_flat.v) : np_index(data, iis_flat.v[k]).exc # ""
    THEN RetExc("IndexError")
    ELSE RetVals(iis_flat.scalar,
                 [k \in 1..Len(iis_flat.v) |-> np_index(data, iis_flat.v[k]).val])

\* lines 460-488: the 2-d indices and new lengths of a tuple index that
\* holds a slice; direct is TRUE on the two paths that do not get here
_resolve_tuple(s, iis) ==
    LET first_dimension == iis.first
        second_dimension == iis.second
        none == [exc |-> "", shape0 |-> FALSE, first |-> <<>>,
                 second |-> <<>>, new_lengths |-> <<>>]
    IN  IF first_dimension.t = "slice" THEN
            LET fl == _slice_to_list(first_dimension, Some(Len(s.lengths)))
            IN  IF fl.exc # "" THEN [none EXCEPT !.exc = fl.exc]
                ELSE IF second_dimension.t = "slice"
                THEN _get_iis_from_slices(fl.val, second_dimension, s.lengths)
                ELSE IF second_dimension.t = "int"
                THEN _get_iis_from_list(fl.val, <<second_dimension.n>>)
                ELSE _get_iis_from_list(fl.val, second_dimension.l)
        ELSE _get_iis_from_slices(first_dimension.l, second_dimension,
                                  s.lengths)

__getitem__(s, iis) ==
    IF iis.t = "int" THEN
        LET r == np_index(s._array, iis.n)
        IN  IF r.exc # "" THEN RetExc(r.exc) ELSE RetItem(r.val)
    ELSE IF iis.t = "slice" THEN
        RetRA(RaggedArray(PySlice(s._array, iis), None, TRUE))
    ELSE IF iis.t = "list" THEN
        \* a Python list (the empty container) takes no list index
        IF s._array = <<>> THEN RetExc("TypeError")
        ELSE IF \E k \in 1..Len(iis.l) : np_index(s._array, iis.l[k]).exc # ""
        THEN RetExc("IndexError")
        ELSE RetRA(RaggedArray(
                 [k \in 1..Len(iis.l) |-> np_index(s._array, iis.l[k]).val],
                 None, TRUE))
    ELSE \* tuple
        IF iis.first.t # "slice" /\ iis.second.t = "slice"
           /\ iis.first.t = "int" THEN
            \* self._array[first_dimension][second_dimension]
            LET r == np_index(s._array, iis.first.n)
            IN  IF r.exc # "" THEN RetExc(r.exc)
                \* a scalar left in _array is not subscriptable
                ELSE IF ~r.val.iter THEN RetExc("TypeError")
                ELSE RetItem(Row(PySlice(r.val.v, iis.second)))
        ELSE IF iis.first.t # "slice" /\ iis.second.t # "slice" THEN
            \* self._data is read before the indices are converted
            IF ~s.data_set THEN RetExc("AttributeError")
            ELSE
              LET c == _convert_from_2d(AsArr(iis.first), AsArr(iis.second),
                                        s.lengths, starts(s), TRUE)
              IN  IF c.exc # "" THEN RetExc(c.exc)
                  ELSE TakeFlat(s._data, c.iis_flat)
        ELSE
            LET g == _resolve_tuple(s, iis)
            IN  IF g.exc # "" THEN RetExc(g.exc)
                ELSE IF ~s.data_set THEN RetExc("AttributeError")
                ELSE IF g.shape0 THEN RetExc("ValueError")
                ELSE
                  LET c == _convert_from_2d(Arr1(g.first), Arr1(g.second),
                                            s.lengths, starts(s), TRUE)
                      sliced_data == TakeFlat(s._data, c.iis_flat)
                  IN  IF c.exc # "" THEN RetExc(c.exc)
                      ELSE IF sliced_data.exc # "" THEN sliced_data
                      ELSE RetRA(RaggedArray(Scalars(sliced_data.vals),
                                             Some(g.new_lengths), TRUE))

\* ------------------------------------------------- RaggedArray.__setitem__
\* assigned values: a scalar, a 1-d array, or a sequence of rows (also what
\* a container value is replaced by, its _array)
VScal(x) == [t |-> "scalar", x |-> x, v |-> <<>>, rows |-> <<>>]
VRow(v) == [t |-> "row", x |-> 0, v |-> v, rows |-> <<>>]
VNested(rows) == [t |-> "nested", x |-> 0, v |-> <<>>, rows |-> rows]

\* lines 556-562 and 571-577: the value as it is written to the flat buffer
value_1d(value) ==
    IF value.t = "scalar" THEN [exc |-> "", val |-> value]
    ELSE IF value.t = "row" THEN
        IF value.v = <<>> THEN [exc |-> "IndexError", val |-> value]
        ELSE [exc |-> "", val |-> value]
    ELSE IF value.rows = <<>> THEN [exc |-> "IndexError", val |-> value]
    ELSE [exc |-> "", val |-> VRow(Flatten(value.rows))]

\* target[positions] = value of numpy, positions 0-based and in range: a
\* scalar or a single value fills, a sequence must have one value per
\* position (a later write to one position wins)
RECURSIVE WriteAll(_, _, _, _)
WriteAll(target, positions, value, k) ==
    IF k > Len(positions) THEN target
    ELSE WriteAll([target EXCEPT ![positions[k] + 1] =
                      IF value.t = "scalar" THEN value.x
                      ELSE IF Len(value.v) = 1 THEN value.v[1]
                      ELSE value.v[k]],
                  positions, value, k + 1)

np_assign(target, positions, value) ==
    \* a leading axis of size one of the value is dropped
    LET v == IF value.t = "nested" /\ Len(value.rows) = 1
             THEN [t |-> "row", x |-> 0, v |-> value.rows[1], rows |-> <<>>]
             ELSE value
    IN  IF v.t = "nested" THEN [exc |-> "ValueError", val |-> target]
        ELSE IF v.t = "row" /\ Len(v.v) # 1 /\ Len(v.v) # Len(positions)
        THEN [exc |-> "ValueError", val |-> target]
        ELSE [exc |-> "", val |-> WriteAll(target, positions, v, 1)]

\* lines 553-566 and 569-580: write value at the flat offsets of the 2-d
\* indices and re-partition
_write_flat(s, first_in, second_in, value) ==
    LET c == _convert_from_2d(first_in, second_in, s.lengths, starts(s), TRUE)
        v1 == value_1d(value)
        w == np_assign(s._data, c.iis_flat.v, v1.val)
        s1 == [s EXCEPT !._data = w.val]
        pl == partition_list(s1._data, s1.lengths)
    IN  IF c.exc # "" THEN [exc |-> c.exc, self |-> s]
        ELSE IF v1.exc # "" THEN [exc |-> v1.exc, self |-> s]
        ELSE IF ~s.data_set THEN [exc |-> "AttributeError", self |-> s]
        ELSE IF w.exc # "" THEN [exc |-> w.exc, self |-> s]
        ELSE IF pl.exc # "" THEN [exc |-> pl.exc, self |-> s1]
        ELSE [exc |-> "",
              self |-> [s1 EXCEPT !._array = np_object_array(pl.val)]]

\* self._array[iis] = value for an int iis
_assign_row(s, n, value) ==
    LET r == np_index(s._array, n)
        i == IF n < 0 THEN n + Len(s._array) + 1 ELSE n + 1
        m == Len(s._array[1].v)
    IN  IF r.exc # "" THEN [exc |-> r.exc, self |-> s]
        ELSE IF Is2D(s._array) THEN
            \* the value is broadcast to the row of the 2-d array
            LET w == np_assign(s._array[i].v, [k \in 1..m |-> k - 1], value)
            IN  IF w.exc # "" THEN [exc |-> w.exc, self |-> s]
                ELSE [exc |-> "", self |-> [s EXCEPT !._array[i] = Row(w.val)]]
        ELSE IF value.t = "nested" THEN [exc |-> "ValueError", self |-> s]
        \* the value becomes the row object
        ELSE [exc |-> "",
              self |-> [s EXCEPT !._array[i] =
                          IF value.t = "scalar" THEN Scal(value.x)
                          ELSE Row(value.v)]]

\* self._array[first_dimension][second_dimension] = value; a row that is a
\* view of the flat buffer writes through to it
_assign_row_slice(s, n, sl, value) ==
    LET r == np_index(s._array, n)
        i == IF n < 0 THEN n + Len(s._array) + 1 ELSE n + 1
        positions == PySliceIndices(sl, Len(r.val.v))
        w == np_assign(r.val.v, positions, value)
        off == starts(s)[i]
        wd == np_assign(s._data, [k \in 1..Len(positions) |-> off + positions[k]],
                        value)
    IN  IF r.exc # "" THEN [exc |-> r.exc, self |-> s]
        ELSE IF ~r.val.iter THEN [exc |-> "TypeError", self |-> s]
        ELSE IF w.exc # "" THEN [exc |-> w.exc, self |-> s]
        ELSE IF r.val.view
        THEN [exc |-> "", self |-> [s EXCEPT !._array[i] = View(w.val),
                                             !._data = wd.val]]
        ELSE [exc |-> "", self |-> [s EXCEPT !._array[i] = Row(w.val)]]

__setitem__(s, iis, value) ==
    IF iis.t = "int" THEN
        LET a == _assign_row(s, iis.n, value)
        IN  IF a.exc # "" THEN a
            ELSE __init__(a.self, a.self._array, None, TRUE)
    ELSE \* tuple
        IF iis.first.t # "slice" /\ iis.second.t = "slice"
           /\ iis.first.t = "int" THEN
            LET a == _assign_row_slice(s, iis.first.n, iis.second, value)
            IN  IF a.exc # "" THEN a
                ELSE __init__(a.self, a.self._array, None, TRUE)
        ELSE IF iis.first.t # "slice" /\ iis.second.t # "slice" THEN
            _write_flat(s, AsArr(iis.first), AsArr(iis.second), value)
        ELSE
            LET g == _resolve_tuple(s, iis)
            IN  IF g.exc # "" THEN [exc |-> g.exc, self |-> s]
                ELSE IF g.shape0 THEN [exc |-> "ValueError", self |-> s]
                ELSE _write_flat(s, Arr1(g.first), Arr1(g.second), value)

\* ------------------------------------------------------ RaggedArray.append
\* list(values) as __init__ sees an appended value: the rows of a sequence of
\* rows, the scalars of a single row
AsItems(values) ==
    IF values.t = "nested" THEN Rows(values.rows) ELSE Scalars(values.v)

\* np.concatenate(values) of line 666: a row of scalars holds zero-dimensional
\* arrays, which do not concatenate, and a scalar is no sequence of arrays
concat_values(values) ==
    IF values.t = "scalar" THEN [exc |-> "TypeError", val |-> <<>>]
    ELSE np_concatenate(AsItems(values))

append(s, values) ==
    IF ~s.data_set THEN [exc |-> "AttributeError", self |-> s]
    ELSE IF Len(s._data) = 0 THEN
        \* list(7) is a TypeError
        IF values.t = "scalar" THEN [exc |-> "TypeError", self |-> s]
        ELSE __init__(s, AsItems(values), None, TRUE)
    ELSE
        LET cv == concat_values(values)
            s1 == [s EXCEPT !._data = s._data \o cv.val]
            items == AsItems(values)
            new_lengths == IF _is_iterable(items[1])
                           THEN [i \in 1..Len(items) |-> Len(items[i].v)]
                           ELSE <<Len(items)>>
            s2 == [s1 EXCEPT !.lengths = s1.lengths \o new_lengths]
            pl == partition_list(s2._data, s2.lengths)
        IN  IF cv.exc # "" THEN [exc |-> cv.exc, self |-> s]
            ELSE IF values.t = "scalar" THEN [exc |-> "DataInvalid", self |-> s1]
            ELSE IF pl.exc # "" THEN [exc |-> pl.exc, self |-> s2]
            ELSE [exc |-> "",
                  self |-> [s2 EXCEPT !._array = np_object_array(pl.val)]]

\* ------------------------------------------ elementwise operators (4.5)
\* operands: a scalar, a flat sequence, or a container
OScal(x) == [t |-> "scalar", x |-> x, v |-> <<>>, ra |-> Blank]
OFlat(v) == [t |-> "flat", x |-> 0, v |-> v, ra |-> Blank]
OCont(r) == [t |-> "RaggedArray", x |-> 0, v |-> <<>>, ra |-> r]

\* getattr(self._data, operator)(other) for the two modelled operators;
\* truth values are 1 and 0
apply_operator(operator, a, b) ==
    IF operator = "__add__" THEN a + b
    ELSE IF a = b THEN 1 ELSE 0

map_operator(s, operator, other) ==
    LET o == IF other.t = "RaggedArray" THEN OFlat(other.ra._data) ELSE other
        n == IF o.t = "scalar" THEN Len(s._data)
             ELSE IF Len(s._data) = 1 THEN Len(o.v) ELSE Len(s._data)
        new_data == [k \in 1..n |->
                       apply_operator(operator, Bc([v |-> s._data], k),
                                      IF o.t = "scalar" THEN o.x
                                      ELSE Bc([v |-> o.v], k))]
    IN  IF other.t = "RaggedArray" /\ ~other.ra.data_set
        THEN RetExc("AttributeError")
        ELSE IF ~s.data_set THEN RetExc("AttributeError")
        \* operands that do not broadcast
        ELSE IF o.t = "flat" /\ Len(o.v) # 1 /\ Len(s._data) # 1
                /\ Len(o.v) # Len(s._data)
        THEN RetExc("ValueError")
        ELSE RetRA(RaggedArray(Scalars(new_data), Some(s.lengths), FALSE))

__invert__(s) ==
    IF ~s.data_set THEN RetExc("AttributeError")
    ELSE RetRA(RaggedArray(Scalars([k \in 1..Len(s._data) |-> -s._data[k] - 1]),
                           Some(s.lengths), TRUE))

\* ------------------------------------------------------------------ load
\* An archive as io.loadh returns it: named entries in iteration order, each
\* a 1-d array; keys() lists the names in that order.
Entry(key, arr) == [key |-> key, arr |-> arr]
archive_keys(ragged_load) == [k \in 1..Len(ragged_load) |-> ragged_load[k].key]
HasKey(ragged_load, key) == \E k \in 1..Len(ragged_load) : ragged_load[k].key = key
\* ragged_load[key], for a key of the archive
archive_get(ragged_load, key) ==
    ragged_load[CHOOSE k \in 1..Len(ragged_load) : ragged_load[k].key = key].arr

\* the keys argument of load: None, Ellipsis or a list of names
KNone == [t |-> "None", l |-> <<>>]
KEllipsis == [t |-> "Ellipsis", l |-> <<>>]
KList(l) == [t |-> "list", l |-> l]

\* load(input_name, keys) on the archive read from input_name. The shapes,
\* the lengths and the concatenation all run over ragged_load.keys(); every
\* entry is 1-d, so the shapes agree.
load(ragged_load, keys) ==
    IF keys.t = "None" THEN
        IF HasKey(ragged_load, "array") /\ HasKey(ragged_load, "lengths")
        THEN RetRA(RaggedArray(Scalars(archive_get(ragged_load, "array")),
                               Some(archive_get(ragged_load, "lengths")), TRUE))
        ELSE IF HasKey(ragged_load, "arr_0")
        THEN RetVals(FALSE, archive_get(ragged_load, "arr_0"))
        ELSE RetExc("KeyError")
    ELSE
        LET all_keys == archive_keys(ragged_load)
            lengths == [k \in 1..Len(all_keys) |->
                           Len(archive_get(ragged_load, all_keys[k]))]
            concat == Flatten([k \in 1..Len(all_keys) |->
                                  archive_get(ragged_load, all_keys[k])])
        IN  \* shapes[0] of no shapes
            IF all_keys = <<>> THEN RetExc("IndexError")
            ELSE RetRA(RaggedArray(Scalars(concat), Some(lengths), TRUE))

\* ------------------------------------------------------------ the inputs
Elem == 1..MaxElem

SeqsUpTo(S, n) == UNION {[1..k -> S] : k \in 0..n}

\* rows of scalars, and nested sequences of rows
RowVals == SeqsUpTo(Elem, MaxRowLen)
NestedInputs == SeqsUpTo(RowVals, MaxRows)

\* integer indices: every valid row and column of the largest container, the
\* negative forms of them, and one past the end
RowInts == (-MaxRows)..MaxRows
ColInts == (-MaxRowLen)..MaxRowLen

\* parallel (rows, cols) batches of one or two 2-d indices
Batches == {b \in SeqsUpTo(RowInts \X ColInts, 2) : b # <<>>}
BatchRows(b) == [k \in 1..Len(b) |-> b[k][1]]
BatchCols(b) == [k \in 1..Len(b) |-> b[k][2]]

ColLists == {l \in SeqsUpTo(ColInts, 2) : l # <<>>}
RowLists == {l \in SeqsUpTo((-1)..(MaxRows - 1), 2) : l # <<>>}

\* slices: each bound absent, negative, inside or past the end; the step
\* absent, forward or backward
Opt(S) == {None} \cup {Some(x) : x \in S}
Steps == {None, Some(2), Some(-1)}
ColSlices == {ISlice(a, b, c) : a \in Opt((-1)..MaxRowLen),
                                b \in Opt((-1)..(MaxRowLen + 1)), c \in Steps}
RowSlices == {ISlice(a, b, c) : a \in Opt((-1)..MaxRows),
                                b \in Opt((-1)..(MaxRows + 1)), c \in Steps}
\* the slices that select all rows or the one row i
OneRowSlices == {ISlice(None, None, None)}
                \cup {ISlice(Some(i), Some(i + 1), None) : i \in 0..(MaxRows - 1)}
AllSlice == ISlice(None, None, None)

\* the 2-tuple indices without a slice, and with one
DirectIndices ==
    {ITuple(IInt(r), IInt(c)) : r \in RowInts, c \in ColInts}
    \cup {ITuple(IList(BatchRows(b)), IList(BatchCols(b))) : b \in Batches}
    \cup {ITuple(IInt(r), IList(l)) : r \in RowInts, l \in ColLists}
    \cup {ITuple(IList(l), IInt(c)) : l \in RowLists, c \in ColInts}
SliceIndices ==
    {ITuple(rs, cs) : rs \in OneRowSlices, cs \in ColSlices}
    \cup {ITuple(rs, AllSlice) : rs \in RowSlices}
    \cup {ITuple(rs, IInt(c)) : rs \in RowSlices, c \in ColInts}
    \cup {ITuple(rs, IList(l)) : rs \in OneRowSlices, l \in ColLists}
    \cup {ITuple(IList(l), cs) : l \in RowLists, cs \in ColSlices}
    \cup {ITuple(IInt(r), cs) : r \in RowInts, cs \in ColSlices}
TupleIndices == DirectIndices \cup SliceIndices

\* assigned and appended values
Values ==
    {VScal(x) : x \in Elem} \cup {VRow(v) : v \in RowVals}
    \cup {VNested(rr) : rr \in NestedInputs}

\* operands of the elementwise operators
Operators == {"__add__", "__eq__"}

\* the tuple indices and values of the mutator sequences: one or more index
\* of every form __setitem__ tells apart
FewSlices == {AllSlice, ISlice(Some(1), None, None),
              ISlice(Some(-1), Some(MaxRowLen + 1), None)}
EdgeInts == {-1, 1}
SeqIndices ==
    {ITuple(IInt(r), IInt(c)) : r \in RowInts, c \in ColInts}
    \cup {ITuple(IList(<<r, 0>>), IList(<<c, 0>>)) : r \in EdgeInts, c \in EdgeInts}
    \cup {ITuple(IInt(r), IList(<<0, c>>)) : r \in EdgeInts, c \in EdgeInts}
    \cup {ITuple(IList(<<0, r>>), IInt(c)) : r \in EdgeInts, c \in EdgeInts}
    \cup {ITuple(rs, cs) : rs \in FewSlices, cs \in FewSlices}
    \cup {ITuple(rs, IInt(c)) : rs \in FewSlices, c \in EdgeInts}
    \cup {ITuple(rs, IList(<<0, c>>)) : rs \in FewSlices, c \in EdgeInts}
    \cup {ITuple(IList(<<r>>), cs) : r \in EdgeInts, cs \in FewSlices}
    \cup {ITuple(IInt(r), cs) : r \in RowInts, cs \in FewSlices}
SeqValues ==
    {VScal(x) : x \in Elem}
    \cup {VRow(<<1>>), VNested(<< <<MaxElem>> >>)}

\* the tuple indices of single assignments: also the last column of rows
LastColumn == ISlice(Some(-1), None, None)
WriteIndices == SeqIndices \cup {ITuple(rs, LastColumn) : rs \in FewSlices}

\* values of more than one element, as one row and as rows
WriteValues ==
    {VRow(<<1, 2>>), VNested(<< <<2>>, <<1>> >>), VNested(<< <<2, 1>> >>)}

\* ------------------------------------------------------- the state machine
\* self is the container and ret what the last call on it returned or
\* raised. Under SpecCall call is the one call to be made, with its
\* arguments; under Spec, the sequences of mutating calls, it stays the
\* constructor call and only the outcome of the last call is kept.
VARIABLES self, call, ret
vars == <<self, call, ret>>

Call(op, iis, value) == [op |-> op, iis |-> iis, value |-> value]
NoIndex == IInt(0)
NoValue == VScal(0)

\* the containers that construction from nested rows yields
Built(R) == RaggedArray(Rows(R), None, TRUE)

\* the state after construction from nested rows
Init ==
    \E R \in NestedInputs :
        /\ self = Built(R).self
        /\ call = Call("RaggedArray", NoIndex, NoValue)
        /\ ret = RetExc("")

\* self[i] = value
SetRow ==
    \E i \in RowInts, value \in {w \in Values : w.t # "nested"} :
        \E r \in {__setitem__(self, IInt(i), value)} :
            /\ self' = r.self
            /\ ret' = RetExc(r.exc)
            /\ UNCHANGED call

\* self[rows, cols] = value
SetTuple ==
    \E iis \in SeqIndices, value \in SeqValues :
        \E r \in {__setitem__(self, iis, value)} :
            /\ self' = r.self
            /\ ret' = RetExc(r.exc)
            /\ UNCHANGED call

\* self.append(values), while the container stays within MaxRows rows
AppendRows ==
    \E values \in Values :
        \E r \in {append(self, values)} :
            /\ Len(r.self.lengths) <= MaxRows
            /\ self' = r.self
            /\ ret' = RetExc(r.exc)
            /\ UNCHANGED call

Next == SetRow \/ SetTuple \/ AppendRows

Spec == Init /\ [][Next]_vars

\* ------------------------------------------------- one call, in full
\* The calls whose result is a function of the container and the arguments:
\* the initial state holds a constructed container and the call to be made,
\* one action per operation makes it and records what it returned.
Pending == [exc |-> "", kind |-> "pending", vals |-> <<>>, ra |-> Blank]

FlatInputs == SeqsUpTo(Elem, MaxRowLen + 1)
LengthsInputs == SeqsUpTo(0..MaxRowLen, MaxRows)

\* flat indices: in range, and one past the end
FlatLists == {l \in SeqsUpTo(0..(MaxRows * MaxRowLen), 2) : l # <<>>}

Calls ==
    {Call("__getitem__", IInt(i), NoValue) : i \in RowInts}
    \cup {Call("__getitem__", iis, NoValue) : iis \in TupleIndices}
    \cup {Call("__getitem__", sl, NoValue) : sl \in RowSlices}
    \cup {Call("RaggedArray", NoIndex, value) :
             value \in {w \in Values : w.t # "scalar"}}
    \cup {[op |-> "RaggedArray(lengths)", iis |-> NoIndex, value |-> VRow(flat),
           lengths |-> ls] : flat \in FlatInputs, ls \in LengthsInputs}
    \cup {Call("append", NoIndex, value) : value \in Values}
    \cup {[op |-> "map_operator", iis |-> NoIndex, value |-> NoValue,
           operator |-> o, other |-> x] :
             o \in Operators,
             x \in {OScal(e) : e \in Elem}
                   \cup {OFlat(v) : v \in SeqsUpTo(Elem, MaxRows * MaxRowLen)}
                   \cup {OCont(Built(R).self) : R \in NestedInputs}}
    \cup {Call("__invert__", NoIndex, NoValue)}
    \cup {Call("_convert_from_2d", ITuple(IList(BatchRows(b)),
                                          IList(BatchCols(b))), NoValue) :
             b \in Batches}
    \cup {Call("_convert_from_1d", IList(l), NoValue) : l \in FlatLists}
    \cup {Call("__setitem__", IInt(i), value) :
             i \in RowInts, value \in {w \in Values : w.t # "nested"}}
    \cup {Call("__setitem__", iis, value) :
             iis \in WriteIndices, value \in SeqValues \cup WriteValues}
    \cup {Call("_slice_to_list", sl, NoValue) : sl \in RowSlices}

\* archives: up to MaxRows entries under different names, and the keys
\* arguments: None, Ellipsis, or one or two names
KeyNames == {"array", "lengths", "arr_0"}
Archives ==
    {a \in SeqsUpTo({Entry(k, v) : k \in KeyNames, v \in RowVals}, MaxRows) :
        \A i, j \in 1..Len(a) : i # j => a[i].key # a[j].key}
KeyArgs == {KNone, KEllipsis}
           \cup {KList(l) : l \in SeqsUpTo(KeyNames, 2) \ {<<>>}}
LoadCalls ==
    {[op |-> "load", iis |-> NoIndex, value |-> NoValue,
      archive |-> a, keys |-> k] : a \in Archives, k \in KeyArgs}

\* a call on a constructed container, or a call of the module function
\* load, which takes no container
InitCall ==
    \/ \E R \in NestedInputs, c \in Calls :
          /\ self = Built(R).self
          /\ call = c
          /\ ret = Pending
    \/ \E c \in LoadCalls :
          /\ self = Blank
          /\ call = c
          /\ ret = Pending

IsPending(op) == ret.kind = "pending" /\ call.op = op

\* self[iis]
GetItem ==
    /\ IsPending("__getitem__")
    /\ ret' = __getitem__(self, call.iis)
    /\ UNCHANGED <<self, call>>

\* RaggedArray(array): another container, from rows or from scalars
Construct ==
    /\ IsPending("RaggedArray")
    /\ ret' = RetRA(RaggedArray(AsItems(call.value), None, TRUE))
    /\ UNCHANGED <<self, call>>

\* RaggedArray(flat, lengths=lengths)
ConstructFlat ==
    /\ IsPending("RaggedArray(lengths)")
    /\ ret' = RetRA(RaggedArray(Scalars(call.value.v), Some(call.lengths), TRUE))
    /\ UNCHANGED <<self, call>>

\* self.append(values)
AppendCall ==
    /\ IsPending("append")
    /\ self' = append(self, call.value).self
    /\ ret' = RetExc(append(self, call.value).exc)
    /\ UNCHANGED call

\* self[iis] = value
SetItem ==
    /\ IsPending("__setitem__")
    /\ self' = __setitem__(self, call.iis, call.value).self
    /\ ret' = RetExc(__setitem__(self, call.iis, call.value).exc)
    /\ UNCHANGED call

\* self.map_operator(operator, other)
MapOperator ==
    /\ IsPending("map_operator")
    /\ ret' = map_operator(self, call.operator, call.other)
    /\ UNCHANGED <<self, call>>

\* ~self
Invert ==
    /\ IsPending("__invert__")
    /\ ret' = __invert__(self)
    /\ UNCHANGED <<self, call>>

\* _convert_from_2d(iis, lengths=self.lengths, starts=self.starts)
Convert2d ==
    /\ IsPending("_convert_from_2d")
    /\ LET c == _convert_from_2d(AsArr(call.iis.first), AsArr(call.iis.second),
                                 self.lengths, starts(self), TRUE)
       IN  ret' = IF c.exc # "" THEN RetExc(c.exc)
                  ELSE RetVals(FALSE, c.iis_flat.v)
    /\ UNCHANGED <<self, call>>

\* _convert_from_1d((iis_flat,), starts=self.starts), as where() calls it;
\* the rows are returned in vals and the columns in ra._data
Convert1d ==
    /\ IsPending("_convert_from_1d")
    /\ LET c == _convert_from_1d(call.iis.l, None, Some(starts(self)))
       IN  ret' = IF c.exc # "" THEN RetExc(c.exc)
                  ELSE [exc |-> "", kind |-> "indices", vals |-> c.first,
                        ra |-> [Blank EXCEPT !._data = c.second]]
    /\ UNCHANGED <<self, call>>

\* _slice_to_list(first_dimension, length=len(self.lengths)), as __getitem__
\* and __setitem__ call it on a row slice
SliceToList ==
    /\ IsPending("_slice_to_list")
    /\ LET r == _slice_to_list(call.iis, Some(Len(self.lengths)))
       IN  ret' = IF r.exc # "" THEN RetExc(r.exc) ELSE RetVals(FALSE, r.val)
    /\ UNCHANGED <<self, call>>

\* load(input_name, keys)
Load ==
    /\ IsPending("load")
    /\ ret' = load(call.archive, call.keys)
    /\ UNCHANGED <<self, call>>

NextCall == GetItem \/ Construct \/ ConstructFlat \/ AppendCall \/ SetItem
            \/ MapOperator \/ Invert \/ Convert2d \/ Convert1d \/ Load
            \/ SliceToList

SpecCall == InitCall /\ [][NextCall]_vars

\* ------------------------------------------------------------ the claims
\* the one call of SpecCall has been made, and it was op
Made(op) == call.op = op /\ ret.kind # "pending"

\* the rows of a container as its flat buffer and lengths give them
FlatRow(s, i) == PySub(s._data, starts(s)[i], starts(s)[i] + s.lengths[i])

\* sum(lengths) == size(flat)
I1(s) == Sum(s.lengths) = size(s)

\* C1: the container operated on and every container a call returns have
\* lengths that sum to the size of the flat buffer, and construction from a
\* flat sequence with lengths that do not sum to its size raises DataInvalid.
C1_LengthsSumToSize ==
    /\ I1(self)
    /\ ret.kind = "RaggedArray" => I1(ret.ra)
    /\ (Made("RaggedArray(lengths)") /\ Sum(call.lengths) # Len(call.value.v))
          => ret.exc = "DataInvalid"

\* C2: after every row assignment, tuple assignment and append, whether it
\* returned or raised, the container has one materialized row per length and
\* row i is flat[starts[i] : starts[i] + lengths[i]].
C2_FullyConstructed ==
    /\ Len(self._array) = Len(self.lengths)
    /\ \A i \in 1..Len(self.lengths) :
          /\ _is_iterable(self._array[i])
          /\ self._array[i].v = FlatRow(self, i)

\* C3: the container built from the nested rows R has one length per row of
\* R, lengths[i] = len(R[i]), and an integer row index i returns exactly R[i].
C3_RoundTrip ==
    (Made("RaggedArray") /\ call.value.t = "nested") =>
        LET R == call.value.rows
        IN  /\ ret.exc = ""
            /\ ret.kind = "RaggedArray"
            /\ Len(ret.ra.lengths) = Len(R)
            /\ \A i \in 1..Len(R) :
                  /\ ret.ra.lengths[i] = Len(R[i])
                  /\ __getitem__(ret.ra, IInt(i - 1))
                        = [exc |-> "", kind |-> "row", vals |-> R[i],
                           ra |-> Blank]

\* a container with an empty row has been built and returned
C3_Witness ==
    /\ Made("RaggedArray")
    /\ call.value = VNested(<< <<1, 2>>, <<>> >>)
    /\ ret.kind = "RaggedArray"
    /\ ret.ra.lengths = <<2, 0>>

\* every (rows[k], cols[k]) is a row of the lengths and a column of that row
ValidPairs(ls, rows, cols) ==
    /\ Len(rows) = Len(cols)
    /\ \A k \in 1..Len(rows) :
          /\ rows[k] >= 0 /\ rows[k] < Len(ls)
          /\ cols[k] >= 0 /\ cols[k] < ls[rows[k] + 1]

\* C4: for valid (row, col) pairs 2D->flat followed by flat->2D returns the
\* pairs, and for flat indices in [0, sum(lengths)) flat->2D followed by
\* 2D->flat returns the flat indices, in any order and with repetitions.
C4_FlatInverse ==
    /\ (Made("_convert_from_2d")
        /\ ValidPairs(self.lengths, call.iis.first.l, call.iis.second.l)) =>
          /\ ret.exc = ""
          /\ _convert_from_1d(ret.vals, Some(self.lengths), None)
                = [exc |-> "", first |-> call.iis.first.l,
                   second |-> call.iis.second.l]
    /\ (Made("_convert_from_1d")
        /\ \A k \in 1..Len(call.iis.l) :
              call.iis.l[k] >= 0 /\ call.iis.l[k] < Sum(self.lengths)) =>
          /\ ret.exc = ""
          /\ ValidPairs(self.lengths, ret.vals, ret.ra._data)
          /\ _convert_from_2d(Arr1(ret.vals), Arr1(ret.ra._data),
                              self.lengths, starts(self), TRUE)
                = [exc |-> "", iis_flat |-> Arr1(call.iis.l)]

\* an unsorted batch behind a zero-length row has been converted
C4_Witness ==
    /\ Made("_convert_from_2d")
    /\ self.lengths = <<0, 2>>
    /\ call.iis = ITuple(IList(<<1, 1>>), IList(<<1, 0>>))
    /\ ret.vals = <<1, 0>>

\* the pairs a tuple index of ints and lists addresses
IdxSeq(ix) == IF ix.t = "int" THEN <<ix.n>> ELSE ix.l
PairCount(iis) == Max(Len(IdxSeq(iis.first)), Len(IdxSeq(iis.second)))
RowOf(iis, k) == IF iis.first.t = "int" THEN iis.first.n ELSE iis.first.l[k]
ColOf(iis, k) == IF iis.second.t = "int" THEN iis.second.n ELSE iis.second.l[k]

\* a scalar pair, parallel lists, or a scalar row with a list of columns,
\* every pair of it a valid non-negative index of s
ValidDirect(s, iis) ==
    /\ iis.t = "tuple"
    /\ \/ iis.first.t = "int" /\ iis.second.t \in {"int", "list"}
       \/ /\ iis.first.t = "list" /\ iis.second.t = "list"
          /\ Len(iis.first.l) = Len(iis.second.l)
    /\ \A k \in 1..PairCount(iis) :
          /\ RowOf(iis, k) >= 0 /\ RowOf(iis, k) < Len(s.lengths)
          /\ ColOf(iis, k) >= 0 /\ ColOf(iis, k) < s.lengths[RowOf(iis, k) + 1]

\* the same index with every row written as row - row_count
NegRows(s, iis) ==
    [iis EXCEPT !.first =
        IF iis.first.t = "int" THEN IInt(iis.first.n - Len(s.lengths))
        ELSE IList([k \in 1..Len(iis.first.l) |->
                       iis.first.l[k] - Len(s.lengths)])]

\* the same index with every column written as col - lengths[row]
NegCols(s, iis) ==
    [iis EXCEPT !.second =
        IF iis.second.t = "int"
        THEN IInt(iis.second.n - s.lengths[RowOf(iis, 1) + 1])
        ELSE IList([k \in 1..Len(iis.second.l) |->
                       iis.second.l[k] - s.lengths[RowOf(iis, k) + 1]])]

\* C5: a read with valid non-negative (row, col) indices returns the addressed
\* elements, and the reads with (row - row_count, col) and with
\* (row, col - lengths[row]) return the same.
C5_NegativeIndexEquivalence ==
    (Made("__getitem__") /\ ValidDirect(self, call.iis)) =>
        /\ ret.exc = ""
        /\ Len(ret.vals) = PairCount(call.iis)
        /\ \A k \in 1..PairCount(call.iis) :
              ret.vals[k] = FlatRow(self, RowOf(call.iis, k) + 1)
                                [ColOf(call.iis, k) + 1]
        /\ __getitem__(self, NegRows(self, call.iis)) = ret
        /\ __getitem__(self, NegCols(self, call.iis)) = ret

\* a parallel batch has been read from rows of different lengths
C5_Witness ==
    /\ Made("__getitem__")
    /\ self.lengths = <<2, 1>>
    /\ self._data = <<1, 2, 1>>
    /\ call.iis = ITuple(IList(<<1, 0>>), IList(<<0, 1>>))
    /\ ret.vals = <<1, 2>>

\* the rows a list of valid rows selects, and the rows the slices [:] and
\* [i:i+1] select
SelectedRows(s, ix) ==
    IF ix.t = "list" THEN ix.l ELSE PySliceIndices(ix, Len(s.lengths))

\* a read of rows (a list of valid rows, [:] or [i:i+1]) with a forward
\* column slice whose start is not negative and whose stop exceeds the
\* length of a selected row
ClippedRead(s, iis) ==
    /\ iis.t = "tuple"
    /\ iis.second.t = "slice"
    /\ \/ /\ iis.first.t = "list"
          /\ \A k \in 1..Len(iis.first.l) :
                iis.first.l[k] >= 0 /\ iis.first.l[k] < Len(s.lengths)
       \/ iis.first \in OneRowSlices
    /\ iis.second.start = None \/ iis.second.start[1] >= 0
    /\ iis.second.step = None \/ iis.second.step[1] > 0
    /\ iis.second.stop # None
    /\ \E k \in 1..Len(SelectedRows(s, iis.first)) :
          iis.second.stop[1] > s.lengths[SelectedRows(s, iis.first)[k] + 1]

\* row r of s sliced with a stop past its end set to the length of the row
ClippedRow(s, r, sl) ==
    PySlice(FlatRow(s, r + 1),
            [sl EXCEPT !.stop = Some(Min(sl.stop[1], s.lengths[r + 1]))])

\* C6: a read whose column stop exceeds the length of a selected row raises
\* nothing and returns a container that holds, for each selected row, that
\* row sliced up to its own length, with the counts of them as lengths.
C6_SliceClipping ==
    (Made("__getitem__") /\ ClippedRead(self, call.iis)) =>
        LET sel == SelectedRows(self, call.iis.first)
            rows == [k \in 1..Len(sel) |->
                        ClippedRow(self, sel[k], call.iis.second)]
        IN  /\ ret.exc = ""
            /\ ret.kind = "RaggedArray"
            /\ ret.ra.lengths = [k \in 1..Len(sel) |-> Len(rows[k])]
            /\ ret.ra._data = Flatten(rows)
            /\ \A k \in 1..Len(sel) :
                  __getitem__(ret.ra, IInt(k - 1)).vals = rows[k]

\* a scalar, a flat sequence of the size of s, or a container of that size
Compatible(s, other) ==
    \/ other.t = "scalar"
    \/ other.t = "flat" /\ Len(other.v) = size(s)
    \/ other.t = "RaggedArray" /\ size(other.ra) = size(s)

\* C7: map_operator with a compatible operand, and the unary complement,
\* return a new container with the lengths and the flat size of the
\* container, which they leave unchanged.
C7_OperatorKeepsShape ==
    [][(\/ call.op = "__invert__"
        \/ call.op = "map_operator" /\ Compatible(self, call.other)) =>
          /\ ret'.exc = ""
          /\ ret'.kind = "RaggedArray"
          /\ ret'.ra.lengths = self.lengths
          /\ size(ret'.ra) = size(self)
          /\ self' = self]_vars

\* the lengths of a list of rows
RowLengths(A) == [k \in 1..Len(A) |-> Len(A[k])]

\* C8: appending the rows A and then the rows B gives the flat buffer and
\* lengths that appending A ++ B once gives, and an append of rows puts
\* their elements behind the old flat buffer and their lengths behind the
\* old lengths.
C8_AppendAssociative ==
    [][(call.op = "append" /\ call.value.t = "nested") =>
          LET A == call.value.rows
          IN  /\ ret'.exc = ""
              /\ self'._data = self._data \o Flatten(A)
              /\ self'.lengths = self.lengths \o RowLengths(A)
              /\ \A B \in NestedInputs :
                    LET two == append(self', VNested(B))
                        one == append(self, VNested(A \o B))
                    IN  /\ two.exc = one.exc
                        /\ two.self._data = one.self._data
                        /\ two.self.lengths = one.self.lengths]_vars

\* C9: appending one row of scalars to a container that holds elements adds
\* exactly that row: its elements behind the flat buffer, its length behind
\* the lengths.
C9_AppendSingleRow ==
    [][(call.op = "append" /\ call.value.t = "row" /\ call.value.v # <<>>
        /\ size(self) > 0) =>
          /\ ret'.exc = ""
          /\ self'._data = self._data \o call.value.v
          /\ self'.lengths = self.lengths \o <<Len(call.value.v)>>]_vars

\* C10: append of a row or of rows to a container without elements leaves
\* it with the flat buffer, lengths and rows of a container newly built from
\* the values.
C10_AppendToEmpty ==
    [][(call.op = "append" /\ call.value.t # "scalar" /\ size(self) = 0) =>
          LET fresh == RaggedArray(AsItems(call.value), None, TRUE)
          IN  /\ ret'.exc = fresh.exc
              /\ self'._data = fresh.self._data
              /\ self'.lengths = fresh.self.lengths
              /\ self'._array = fresh.self._array]_vars

\* the entries of the archive a under the names l, in the order of l
Requested(a, l) == [k \in 1..Len(l) |-> archive_get(a, l[k])]

\* the names load is asked for: the given list, or with Ellipsis every name
RequestedKeys(c) ==
    IF c.keys.t = "Ellipsis" THEN archive_keys(c.archive) ELSE c.keys.l

\* C11: load with a list of keys of the archive, the requested entries
\* holding some element, returns a container with one row per requested
\* key, in order: lengths are the sizes of those entries and flat is their
\* concatenation; with Ellipsis every entry is a row.
C11_KeyedLoad ==
    (/\ Made("load")
     /\ call.keys.t # "None"
     /\ call.archive # <<>>
     /\ \A k \in 1..Len(call.keys.l) : HasKey(call.archive, call.keys.l[k])
     /\ Flatten(Requested(call.archive, RequestedKeys(call))) # <<>>) =>
        LET rows == Requested(call.archive, RequestedKeys(call))
        IN  /\ ret.exc = ""
            /\ ret.kind = "RaggedArray"
            /\ ret.ra.lengths = RowLengths(rows)
            /\ ret.ra._data = Flatten(rows)

\* a tuple index without a slice: ints and lists, two lists being parallel
IsDirect(iis) ==
    /\ iis.t = "tuple"
    /\ iis.first.t \in {"int", "list"}
    /\ iis.second.t \in {"int", "list"}
    /\ (iis.first.t = "list" /\ iis.second.t = "list")
          => Len(iis.first.l) = Len(iis.second.l)

\* a row or column with a negative index counted from the end
Normalized(i, n) == IF i < 0 THEN i + n ELSE i

\* some pair of the index has, after normalization, a row outside
\* [0, row_count) or a column outside [0, lengths[row])
OutOfBounds(s, iis) ==
    \E k \in 1..PairCount(iis) :
        LET row == Normalized(RowOf(iis, k), Len(s.lengths))
        IN  \/ row < 0
            \/ row >= Len(s.lengths)
            \/ LET col == Normalized(ColOf(iis, k), s.lengths[row + 1])
               IN  col < 0 \/ col >= s.lengths[row + 1]

\* C12: a read or a write with a tuple index without a slice that is out of
\* bounds after normalization raises IndexError and leaves the container as
\* it was.
C12_BoundsChecked ==
    [][(/\ call.op \in {"__getitem__", "__setitem__"}
        /\ IsDirect(call.iis)
        /\ OutOfBounds(self, call.iis)) =>
          /\ ret'.exc = "IndexError"
          /\ self' = self]_vars

\* the slice [::-1]
ReverseSlice == ISlice(None, None, Some(-1))

\* a sequence back to front
Reverse(q) == [k \in 1..Len(q) |-> q[Len(q) + 1 - k]]

\* C13: _slice_to_list of [::-1] yields the indices n-1, n-2, ..., 0 of an
\* axis of length n, and C[::-1, :] on a container that holds elements
\* returns the rows of C in reverse order.
C13_FullReverse ==
    /\ (Made("_slice_to_list") /\ call.iis = ReverseSlice) =>
          /\ ret.exc = ""
          /\ ret.vals = [k \in 1..Len(self.lengths) |-> Len(self.lengths) - k]
    /\ (Made("__getitem__") /\ call.iis = ITuple(ReverseSlice, AllSlice)
        /\ size(self) > 0) =>
          /\ ret.exc = ""
          /\ ret.kind = "RaggedArray"
          /\ ret.ra.lengths = Reverse(self.lengths)
          /\ ret.ra._data =
                Flatten(Reverse([i \in 1..Len(self.lengths) |-> FlatRow(self, i)]))

\* the rows a row selector addresses, in order, and the columns a column
\* selector addresses in row r, by ordinary sequence indexing
RefRows(s, ix) ==
    IF ix.t = "slice" THEN PySliceIndices(ix, Len(s.lengths))
    ELSE [k \in 1..Len(IdxSeq(ix)) |->
             Normalized(IdxSeq(ix)[k], Len(s.lengths))]
RefCols(s, r, ix) ==
    IF ix.t = "slice" THEN PySliceIndices(ix, s.lengths[r + 1])
    ELSE [k \in 1..Len(IdxSeq(ix)) |->
             Normalized(IdxSeq(ix)[k], s.lengths[r + 1])]

\* the flat offsets a valid tuple index resolves to: pair by pair without a
\* slice, otherwise the addressed columns of each addressed row, row by row
WriteOffsets(s, iis) ==
    IF IsDirect(iis)
    THEN [k \in 1..PairCount(iis) |->
             LET row == Normalized(RowOf(iis, k), Len(s.lengths))
             IN  starts(s)[row + 1]
                   + Normalized(ColOf(iis, k), s.lengths[row + 1])]
    ELSE LET rows == RefRows(s, iis.first)
         IN  Flatten([k \in 1..Len(rows) |->
                 LET cols == RefCols(s, rows[k], iis.second)
                 IN  [j \in 1..Len(cols) |-> starts(s)[rows[k] + 1] + cols[j]]])

\* a tuple index whose ints and list entries are, after normalization, rows
\* and columns of s, and that addresses some element and none twice
ValidTuple(s, iis) ==
    /\ iis.t = "tuple"
    /\ (iis.first.t # "slice" /\ iis.second.t # "slice") => IsDirect(iis)
    /\ iis.first.t # "slice" =>
          \A k \in 1..Len(IdxSeq(iis.first)) :
              /\ IdxSeq(iis.first)[k] >= -Len(s.lengths)
              /\ IdxSeq(iis.first)[k] < Len(s.lengths)
    /\ IF IsDirect(iis) THEN ~OutOfBounds(s, iis)
       ELSE iis.second.t # "slice" =>
              \A k \in 1..Len(RefRows(s, iis.first)) :
                \A j \in 1..Len(IdxSeq(iis.second)) :
                  /\ IdxSeq(iis.second)[j]
                        >= -s.lengths[RefRows(s, iis.first)[k] + 1]
                  /\ IdxSeq(iis.second)[j]
                        < s.lengths[RefRows(s, iis.first)[k] + 1]
    /\ LET o == WriteOffsets(s, iis)
       IN  /\ o # <<>>
           /\ \A k, j \in 1..Len(o) : o[k] = o[j] => k = j

\* the elements a value puts at n offsets: a scalar at each, a row or the
\* rows of a nested value element by element
Written(value, n) ==
    IF value.t = "scalar" THEN [k \in 1..n |-> value.x]
    ELSE IF value.t = "row" THEN value.v
    ELSE Flatten(value.rows)

\* what a read returned, as one sequence
ReadFlat(r) == IF r.kind = "RaggedArray" THEN r.ra._data ELSE r.vals

\* a valid tuple index of s with a scalar or one element per addressed offset
ValidAssign(s, iis, value) ==
    /\ ValidTuple(s, iis)
    /\ Len(Written(value, Len(WriteOffsets(s, iis))))
          = Len(WriteOffsets(s, iis))

\* the assignment s[iis] = value raised exc and left the container as t:
\* nothing raised, lengths kept, the flat buffer changed at the addressed
\* offsets only and holding the elements of the value there, and a read
\* with the same index returns them
AssignedInFrame(s, iis, value, exc, t) ==
    LET o == WriteOffsets(s, iis)
        w == Written(value, Len(o))
    IN  /\ exc = ""
        /\ t.lengths = s.lengths
        /\ Len(t._data) = Len(s._data)
        /\ \A k \in 1..Len(s._data) :
              (\A j \in 1..Len(o) : o[j] # k - 1) => t._data[k] = s._data[k]
        /\ \A j \in 1..Len(o) : t._data[o[j] + 1] = w[j]
        /\ __getitem__(t, iis).exc = ""
        /\ ReadFlat(__getitem__(t, iis)) = w

\* C14: C[rows, cols] = value with a valid tuple index and a value of one
\* element per addressed offset (or a scalar) raises nothing, leaves lengths
\* unchanged, changes the flat buffer at the addressed offsets only, puts
\* the elements of the value there in row-major order, and a read with the
\* same index then returns them.
C14_TupleAssignFrame ==
    [][(call.op = "__setitem__" /\ ValidAssign(self, call.iis, call.value))
          => AssignedInFrame(self, call.iis, call.value, ret'.exc, self')]_vars

\* C15: append of a value that is no iterable and no container, to a
\* container that holds elements, raises DataInvalid and leaves the flat
\* buffer and the lengths as they were.
C15_AppendRejectsScalar ==
    [][(call.op = "append" /\ call.value.t = "scalar" /\ size(self) > 0) =>
          /\ ret'.exc = "DataInvalid"
          /\ self'._data = self._data
          /\ self'.lengths = self.lengths]_vars

\* a read of the one valid row i, as the list [i] or the slice i:i+1, with
\* a column slice
OneRowRead(s, iis) ==
    /\ iis.t = "tuple"
    /\ iis.second.t = "slice"
    /\ \/ /\ iis.first.t = "list"
          /\ Len(iis.first.l) = 1
          /\ iis.first.l[1] >= 0 /\ iis.first.l[1] < Len(s.lengths)
       \/ /\ iis.first.t = "slice"
          /\ iis.first.start # None /\ iis.first.step = None
          /\ iis.first.start[1] >= 0 /\ iis.first.start[1] < Len(s.lengths)
          /\ iis.first.stop = Some(iis.first.start[1] + 1)
OneRow(iis) == IF iis.first.t = "list" THEN iis.first.l[1]
               ELSE iis.first.start[1]

\* C16: the container read as C[[i], s] or C[i:i+1, s], for a valid row i
\* and a column slice s that selects some element of the row, holds one
\* row, and that row is what C[i, s] returns: row i sliced by s as a
\* sequence is sliced.
C16_PerRowSliceAgrees ==
    (/\ Made("__getitem__")
     /\ OneRowRead(self, call.iis)
     /\ PySlice(FlatRow(self, OneRow(call.iis) + 1), call.iis.second) # <<>>) =>
        LET one == __getitem__(self, ITuple(IInt(OneRow(call.iis)),
                                            call.iis.second))
        IN  /\ one.exc = ""
            /\ one.vals = PySlice(FlatRow(self, OneRow(call.iis) + 1),
                                  call.iis.second)
            /\ ret.exc = ""
            /\ ret.kind = "RaggedArray"
            /\ ret.ra.lengths = <<Len(one.vals)>>
            /\ ret.ra._data = one.vals

\* the rows of s a row slice selects by ordinary sequence slicing
SlicedRows(s, sl) ==
    LET ix == PySliceIndices(sl, Len(s.lengths))
    IN  [k \in 1..Len(ix) |-> FlatRow(s, ix[k] + 1)]

\* a slice that does not step backwards
Forward(sl) == sl.step = None \/ sl.step[1] > 0

\* C17: for a forward row slice a:b:c that selects some element, the
\* row-only read C[a:b:c] and the tuple read C[a:b:c, :] both return a
\* container of the selected rows in order, with equal flat buffers and
\* equal lengths; and every row index that resolving a forward row slice
\* produces lies in [0, row_count).
C17_RowSlicePathsAgree ==
    /\ (/\ Made("__getitem__")
        /\ call.iis.t = "slice"
        /\ Forward(call.iis)
        /\ Flatten(SlicedRows(self, call.iis)) # <<>>) =>
          LET two == __getitem__(self, ITuple(call.iis, AllSlice))
          IN  /\ ret.exc = ""
              /\ ret.kind = "RaggedArray"
              /\ ret.ra.lengths = RowLengths(SlicedRows(self, call.iis))
              /\ ret.ra._data = Flatten(SlicedRows(self, call.iis))
              /\ two.exc = ""
              /\ two.kind = "RaggedArray"
              /\ two.ra.lengths = ret.ra.lengths
              /\ two.ra._data = ret.ra._data
    /\ (Made("_slice_to_list") /\ Forward(call.iis)) =>
          /\ ret.exc = ""
          /\ \A k \in 1..Len(ret.vals) :
                ret.vals[k] >= 0 /\ ret.vals[k] < Len(self.lengths)

====
